---- MODULE Spec2Model ----
(***************************************************************************)
(* A model of my-node-bundler: the project generator (createProject, in   *)
(* its two variants) and the server.js it emits (findAvailablePort and    *)
(* the start-up code around it).                                          *)
(*                                                                         *)
(*   Spec     the generator: createProject run on a target directory      *)
(*   SpecFn   one findAvailablePort(p, max) search with number arguments  *)
(*   SpecSvc  the generated service's start-up, other processes idle      *)
(*   SpecRace SpecSvc plus other processes binding ports                  *)
(***************************************************************************)
EXTENDS Integers, Sequences, FiniteSets, TLC

VARIABLES
    variant,    \* which generator wrote the code: "index" or "part000"
    \* ---- generator (createProject) ----
    name,       \* the <project-name> argument
    target0,    \* the target directory before the run: [dirs, files]
    dirs,       \* directories under ./name ("" is ./name itself)
    files,      \* path -> content, the regular files under ./name
    gpc,        \* createProject's position
    step,       \* index of the next filesystem call of createProject
    failedAt,   \* index of the filesystem call that threw, 0 if none
    glog,       \* what createProject printed, in order
    npm,        \* the install command: "none", "running", "ok", "failed"
    \* ---- generated server.js ----
    envPORT,    \* process.env.PORT
    arg,        \* the arguments of the outermost findAvailablePort call
    port,       \* the port argument of the current findAvailablePort call
    maxPort,    \* the maxPort argument
    free,       \* ports no other process holds
    probeHeld,  \* the port the probe server holds, NoPort if none
    inFlight,   \* probe servers whose listen has not called back yet
    nProbes,    \* number of bind attempts made by the search
    spc,        \* the service's position
    result,     \* what the findAvailablePort promise settled to
    listenPort, \* the port app.listen bound, NoPort if none
    listenCalled, \* app.listen was called
    slog,       \* what the service printed, in order
    db,         \* connectDB: "off", "connecting", "connected", "failed"
    proc,       \* the service's process: "off", "running", "exit1", "crashed"
    extBinds    \* ports another process bound while the service was starting

gvars == <<name, target0, dirs, files, gpc, step, failedAt, glog, npm>>
svars == <<envPORT, arg, port, maxPort, free, probeHeld, inFlight, nProbes,
           spc, result, listenPort, listenCalled, slog, db, proc, extBinds>>
vars == <<variant, gvars, svars>>

Variants == {"index", "part000"}

(***************************************************************************)
(* The generator.                                                          *)
(***************************************************************************)

\* Bounds of the generator's inputs.
Names == {"demo", "api"}

\* The directory that holds a path ("" is the target directory ./name).
ParentOf(p) ==
    CASE p = "public" -> ""
      [] p = "src" -> ""
      [] p = "src/config" -> "src"
      [] p = "src/controllers" -> "src"
      [] p = "src/models" -> "src"
      [] p = "src/routes" -> "src"
      [] p = "src/utils" -> "src"
      [] p = "package.json" -> ""
      [] p = "server.js" -> ""
      [] p = "src/app.js" -> "src"
      [] p = "src/config/db.js" -> "src/config"
      [] p = "src/routes/index.js" -> "src/routes"
      [] p = "src/routes/userRoutes.js" -> "src/routes"
      [] OTHER -> ""

RECURSIVE Ancestors(_)
Ancestors(p) == IF p = "" THEN {} ELSE {ParentOf(p)} \cup Ancestors(ParentOf(p))

EnsureDirOp(p) == [op |-> "ensureDir", path |-> p]
WriteFileOp(p) == [op |-> "writeFile", path |-> p]

\* Mutant: the src/utils directory is forgotten.
FolderStructure_NoUtils ==
    << EnsureDirOp("public"), EnsureDirOp("src"), EnsureDirOp("src/config"),
       EnsureDirOp("src/controllers"), EnsureDirOp("src/models"),
       EnsureDirOp("src/routes") >>

FolderStructure ==
    << EnsureDirOp("public"), EnsureDirOp("src"), EnsureDirOp("src/config"),
       EnsureDirOp("src/controllers"), EnsureDirOp("src/models"),
       EnsureDirOp("src/routes"), EnsureDirOp("src/utils") >>

\* The filesystem calls of createProject, in program order.
StepsIndex ==
    << EnsureDirOp("") >> \o FolderStructure \o
    << WriteFileOp("package.json"), WriteFileOp("src/app.js"),
       WriteFileOp("server.js"), WriteFileOp("src/config/db.js"),
       WriteFileOp("src/routes/index.js"), WriteFileOp("src/routes/userRoutes.js") >>

StepsPart000 ==
    << EnsureDirOp(""), WriteFileOp("package.json"), WriteFileOp("server.js") >>
    \o FolderStructure \o
    << WriteFileOp("src/config/db.js"), WriteFileOp("src/routes/index.js"),
       WriteFileOp("src/routes/userRoutes.js") >>

StepsOf(v) == IF v = "index" THEN StepsIndex ELSE StepsPart000

\* The install step exists in one variant only.
Installs(v) == v = "part000"

\* What a template file holds: the manifest interpolates the name, and the
\* two variants emit different text for package.json, server.js and
\* userRoutes.js.
ContentOf(v, n, p) ==
    [ tpl  |-> p,
      by   |-> IF p \in {"package.json", "server.js", "src/routes/userRoutes.js",
                         "src/app.js"} THEN v ELSE "both",
      name |-> IF p = "package.json" THEN n ELSE "" ]

\* fs.ensureDir: mkdir -p. It cannot succeed when the path or one of the
\* directories above it is a regular file.
CanEnsureDir(d, f, p) == ({p} \cup Ancestors(p)) \cap DOMAIN f = {}
DirsAfterEnsure(d, p) == d \cup {p} \cup Ancestors(p)

\* fs.writeFile: needs the parent directory, and the path not a directory.
CanWriteFile(d, f, p) == ParentOf(p) \in d /\ p \notin d /\ ParentOf(p) \notin DOMAIN f
FilesAfterWrite(f, p, c) == [q \in DOMAIN f \cup {p} |-> IF q = p THEN c ELSE f[q]]

CanDo(d, f, s) ==
    IF s.op = "ensureDir" THEN CanEnsureDir(d, f, s.path) ELSE CanWriteFile(d, f, s.path)

DirsAfter(d, s) == IF s.op = "ensureDir" THEN DirsAfterEnsure(d, s.path) ELSE d
FilesAfter(v, n, f, s) ==
    IF s.op = "writeFile" THEN FilesAfterWrite(f, s.path, ContentOf(v, n, s.path)) ELSE f

NoFiles == [q \in {} |-> ""]
Stale(p) == [tpl |-> p, by |-> "stale", name |-> ""]

\* The states the target directory can be in before the run.
Targets ==
    { [dirs |-> {}, files |-> NoFiles],                       \* ./name absent
      [dirs |-> {""}, files |-> NoFiles],                     \* ./name empty
      [dirs |-> {}, files |-> [q \in {""} |-> Stale("")]],    \* ./name is a file
      [dirs |-> {""}, files |-> [q \in {"src"} |-> Stale("src")]],
      [dirs |-> {"", "src"},
       files |-> [q \in {"src/routes"} |-> Stale("src/routes")]],
      [dirs |-> {""},
       files |-> [q \in {"package.json", "notes.txt"} |-> Stale(q)]] }

\* JavaScript values: numbers, strings of decimal digits (their numeric value
\* and their length), null and undefined.
JSNum(n) == [t |-> "num", v |-> n, len |-> 0]
JSStr(n, l) == [t |-> "str", v |-> n, len |-> l]
Null == [t |-> "null", v |-> 0, len |-> 0]
Undefined == [t |-> "undef", v |-> 0, len |-> 0]
NoPort == 0 - 1

\* The service is not part of the generator's run.
SvcIdle ==
    /\ envPORT = Undefined
    /\ arg = [p |-> Undefined, max |-> 0]
    /\ port = Undefined
    /\ maxPort = 0
    /\ free = {}
    /\ probeHeld = NoPort
    /\ inFlight = {}
    /\ nProbes = 0
    /\ spc = "off"
    /\ result = Undefined
    /\ listenPort = NoPort
    /\ listenCalled = FALSE
    /\ slog = << >>
    /\ db = "off"
    /\ proc = "off"
    /\ extBinds = {}

\* program.command('create <project-name>').action: createProject(projectName)
Init ==
    /\ variant \in Variants
    /\ name \in Names
    /\ target0 \in Targets
    /\ dirs = target0.dirs
    /\ files = target0.files
    /\ gpc = "fs"
    /\ step = 1
    /\ failedAt = 0
    /\ glog = << >>
    /\ npm = "none"
    /\ SvcIdle

\* One awaited fs.ensureDir / fs.writeFile call returns.
FsStepOk ==
    /\ gpc = "fs"
    /\ step <= Len(StepsOf(variant))
    /\ CanDo(dirs, files, StepsOf(variant)[step])
    /\ dirs' = DirsAfter(dirs, StepsOf(variant)[step])
    /\ files' = FilesAfter(variant, name, files, StepsOf(variant)[step])
    /\ step' = step + 1
    /\ UNCHANGED <<variant, name, target0, gpc, failedAt, glog, npm, svars>>

\* Mutant: the exception is swallowed and createProject goes on.
FsStepThrows_Swallowed ==
    /\ gpc = "fs"
    /\ step <= Len(StepsOf(variant))
    /\ failedAt' = step
    /\ step' = step + 1
    /\ UNCHANGED <<variant, name, target0, dirs, files, gpc, glog, npm, svars>>

\* One awaited call throws (a path collision, or any error of the
\* environment such as EACCES or ENOSPC): the exception leaves createProject.
FsStepThrows ==
    /\ gpc = "fs"
    /\ step <= Len(StepsOf(variant))
    /\ gpc' = "failed"
    /\ failedAt' = step
    /\ UNCHANGED <<variant, name, target0, dirs, files, step, glog, npm, svars>>

\* The two console.log calls after the last write; the installing variant
\* goes on to run npm install, the other returns.
LogCreated ==
    /\ gpc = "fs"
    /\ step > Len(StepsOf(variant))
    /\ IF Installs(variant)
       THEN /\ glog' = glog \o << "created", "installing" >>
            /\ gpc' = "install"
            /\ npm' = "running"
       ELSE /\ glog' = glog \o << "created", "run npm install" >>
            /\ gpc' = "done"
            /\ npm' = npm
    /\ UNCHANGED <<variant, name, target0, dirs, files, step, failedAt, svars>>

\* await execPromise(`cd ${dir} && npm install`) resolves.
InstallOk ==
    /\ gpc = "install"
    /\ npm' = "ok"
    /\ glog' = Append(glog, "installed")
    /\ gpc' = "done"
    /\ UNCHANGED <<variant, name, target0, dirs, files, step, failedAt, svars>>

\* Mutant: no try/catch around the install command.
InstallFails_Uncaught ==
    /\ gpc = "install"
    /\ npm' = "failed"
    /\ gpc' = "failed"
    /\ UNCHANGED <<variant, name, target0, dirs, files, step, failedAt, glog, svars>>

\* It rejects: the catch block logs and createProject returns normally.
InstallFails ==
    /\ gpc = "install"
    /\ npm' = "failed"
    /\ glog' = Append(glog, "install error")
    /\ gpc' = "done"
    /\ UNCHANGED <<variant, name, target0, dirs, files, step, failedAt, svars>>

Next == FsStepOk \/ FsStepThrows \/ LogCreated \/ InstallOk \/ InstallFails

Spec == Init /\ [][Next]_vars

(***************************************************************************)
(* The generated server.js.                                                *)
(***************************************************************************)

DefaultPort == 3000
DefaultMaxPort == 65535

\* Whether the emitted server.js imports http, which findAvailablePort uses.
ImportsHttp(v) == v = "index"

\* ToBoolean, ToNumber and the text a template literal gives a value.
Truthy(x) ==
    CASE x.t = "num" -> x.v # 0
      [] x.t = "str" -> x.len > 0
      [] OTHER -> FALSE
ToNumber(x) == x.v
RECURSIVE Digits(_)
Digits(n) == IF n < 10 THEN 1 ELSE 1 + Digits(n \div 10)
ToText(x) == IF x.t = "num" THEN JSStr(x.v, Digits(x.v)) ELSE x

\* Mutant: the increment concatenates whatever the type of the port.
PlusOne_Concat(x) == [t |-> x.t, v |-> x.v * 10 + 1, len |-> x.len]

\* port + 1: addition on a number, concatenation of "1" on a string.
PlusOne(x) == IF x.t = "num" THEN JSNum(x.v + 1) ELSE JSStr(x.v * 10 + 1, x.len + 1)

\* Mutant: port <= maxPort.
MayRetry_Inclusive(x, m) == ToNumber(x) <= m

\* port < maxPort (a string operand is converted to a number).
MayRetry(x, m) == ToNumber(x) < m

\* process.env.PORT || 3000
PORT == IF Truthy(envPORT) THEN envPORT ELSE JSNum(DefaultPort)

\* listen() throws on a port outside 0..65535.
ValidPort(n) == n \in 0 .. (2^16 - 1)

\* Whether a bind on port n succeeds now. Port 0 asks the system for any
\* free port.
BindOk(n) == n = 0 \/ (n \in free /\ n # probeHeld /\ n # listenPort)

\* The body of findAvailablePort(p, m), up to the return of the promise:
\* http.createServer() and server.listen(p) run inside the promise's
\* executor, so an exception they throw rejects the promise. The bind is
\* attempted at once; its outcome is delivered later as the listen
\* callback or as an 'error' event. pending: the probes already in flight.
CallFind(p, m, pending) ==
    /\ port' = p
    /\ maxPort' = m
    /\ result' = result
    /\ IF ~ImportsHttp(variant) \/ ~ValidPort(ToNumber(p))
       THEN /\ spc' = "rejected"
            /\ probeHeld' = NoPort
            /\ inFlight' = pending
            /\ nProbes' = nProbes
       ELSE /\ nProbes' = nProbes + 1
            /\ inFlight' = pending \cup {ToNumber(p)}
            /\ IF BindOk(ToNumber(p))
               THEN spc' = "listening" /\ probeHeld' = ToNumber(p)
               ELSE spc' = "error" /\ probeHeld' = NoPort

\* Mutant: the probe server is not closed.
OnListening_NoClose ==
    /\ proc = "running"
    /\ spc = "listening"
    /\ result' = port
    /\ spc' = "resolved"
    /\ UNCHANGED <<variant, gvars, envPORT, arg, port, maxPort, free, probeHeld,
                   inFlight, nProbes, listenPort, listenCalled, slog, db, proc,
                   extBinds>>

\* server.listen's callback: server.close(); resolve(port).
OnListening ==
    /\ proc = "running"
    /\ spc = "listening"
    /\ probeHeld' = NoPort
    /\ inFlight' = inFlight \ {ToNumber(port)}
    /\ result' = port
    /\ spc' = "resolved"
    /\ UNCHANGED <<variant, gvars, envPORT, arg, port, maxPort, free, nProbes,
                   listenPort, listenCalled, slog, db, proc, extBinds>>

\* server.on('error'): retry one port up, or resolve(null) at the ceiling.
OnError ==
    /\ proc = "running"
    /\ spc = "error"
    /\ IF MayRetry(port, maxPort)
       THEN CallFind(PlusOne(port), maxPort, inFlight \ {ToNumber(port)})
       ELSE /\ result' = Null
            /\ spc' = "resolved"
            /\ inFlight' = inFlight \ {ToNumber(port)}
            /\ UNCHANGED <<port, maxPort, probeHeld, nProbes>>
    /\ UNCHANGED <<variant, gvars, envPORT, arg, free, listenPort, listenCalled,
                   slog, db, proc, extBinds>>

(***************************************************************************)
(* SpecFn: one search, findAvailablePort(p, max), on number arguments.    *)
(***************************************************************************)

\* Bounds of the search's inputs: p in 0..MaxP, max in 0..MaxM, and the
\* free ports a subset of 1..MaxFree (every other port is held).
MaxP == 3
MaxM == 4
MaxFree == 5

GenIdle ==
    /\ name = "demo"
    /\ target0 = [dirs |-> {}, files |-> NoFiles]
    /\ dirs = {}
    /\ files = NoFiles
    /\ gpc = "off"
    /\ step = 1
    /\ failedAt = 0
    /\ glog = << >>
    /\ npm = "none"

InitFn ==
    /\ variant \in Variants
    /\ GenIdle
    /\ envPORT = Undefined
    /\ arg \in [p : {JSNum(n) : n \in 0 .. MaxP}, max : 0 .. MaxM]
    /\ port = Undefined
    /\ maxPort = 0
    /\ free \in SUBSET (1 .. MaxFree)
    /\ probeHeld = NoPort
    /\ inFlight = {}
    /\ nProbes = 0
    /\ spc = "call"
    /\ result = Undefined
    /\ listenPort = NoPort
    /\ listenCalled = FALSE
    /\ slog = << >>
    /\ db = "off"
    /\ proc = "running"
    /\ extBinds = {}

\* The caller's findAvailablePort(p, max).
FnCall ==
    /\ spc = "call"
    /\ CallFind(arg.p, arg.max, inFlight)
    /\ UNCHANGED <<variant, gvars, envPORT, arg, free, listenPort, listenCalled,
                   slog, db, proc, extBinds>>

NextFn == FnCall \/ OnListening \/ OnError

SpecFn == InitFn /\ [][NextFn]_vars

(***************************************************************************)
(* SpecSvc, SpecRace: `node server.js`.                                    *)
(***************************************************************************)

\* Bounds of the service's environment: the values of process.env.PORT and
\* the ports that may be free when the service starts (every other port is
\* held by another process).
EnvPorts == {Undefined, JSStr(0, 0), JSStr(DefaultPort, 4)}
MayBeFree == {DefaultPort, DefaultPort + 1, DefaultPort * 10 + 1}

InitSvc ==
    /\ variant \in Variants
    /\ GenIdle
    /\ envPORT \in EnvPorts
    /\ arg = [p |-> Undefined, max |-> 0]
    /\ port = Undefined
    /\ maxPort = 0
    /\ free \in SUBSET MayBeFree
    /\ probeHeld = NoPort
    /\ inFlight = {}
    /\ nProbes = 0
    /\ spc = "start"
    /\ result = Undefined
    /\ listenPort = NoPort
    /\ listenCalled = FALSE
    /\ slog = << >>
    /\ db = "off"
    /\ proc = "running"
    /\ extBinds = {}

Line(m, x) == [msg |-> m, port |-> x]

\* The module body: connectDB() is started, then
\* findAvailablePort(PORT).then(...), maxPort defaulted.
Startup ==
    /\ proc = "running"
    /\ spc = "start"
    /\ db' = "connecting"
    /\ arg' = [p |-> PORT, max |-> DefaultMaxPort]
    /\ CallFind(PORT, DefaultMaxPort, inFlight)
    /\ UNCHANGED <<variant, gvars, envPORT, free, listenPort, listenCalled,
                   slog, proc, extBinds>>

\* connectDB: mongoose.connect resolves; the 'connected' observer logs.
DbConnected ==
    /\ proc = "running"
    /\ db = "connecting"
    /\ db' = "connected"
    /\ slog' = Append(slog, Line("MongoDB connected", Undefined))
    /\ UNCHANGED <<variant, gvars, envPORT, arg, port, maxPort, free, probeHeld,
                   inFlight, nProbes, spc, result, listenPort, listenCalled,
                   proc, extBinds>>

\* connectDB: mongoose.connect rejects; the catch block logs and calls
\* process.exit(1), which closes every socket of the process.
DbFails ==
    /\ proc = "running"
    /\ db = "connecting"
    /\ db' = "failed"
    /\ slog' = Append(slog, Line("Error connecting to MongoDB:", Undefined))
    /\ proc' = "exit1"
    /\ probeHeld' = NoPort
    /\ listenPort' = NoPort
    /\ UNCHANGED <<variant, gvars, envPORT, arg, port, maxPort, free,
                   inFlight, nProbes, spc, result, listenCalled, extBinds>>

\* Mutant: app.listen is called whatever the result.
ThenHandler_NoCheck ==
    /\ proc = "running"
    /\ spc = "resolved"
    /\ listenCalled' = TRUE
    /\ IF BindOk(ToNumber(result))
       THEN spc' = "bound" /\ listenPort' = ToNumber(result)
       ELSE spc' = "listenError" /\ listenPort' = listenPort
    /\ UNCHANGED <<variant, gvars, envPORT, arg, port, maxPort, free, probeHeld,
                   inFlight, nProbes, result, slog, db, proc, extBinds>>

\* The .then callback: app.listen(availablePort, ...) or console.error(...).
\* app.listen binds at once; a failed bind is delivered as an 'error' event.
ThenHandler ==
    /\ proc = "running"
    /\ spc = "resolved"
    /\ IF Truthy(result)
       THEN /\ listenCalled' = TRUE
            /\ slog' = slog
            /\ IF BindOk(ToNumber(result))
               THEN spc' = "bound" /\ listenPort' = ToNumber(result)
               ELSE spc' = "listenError" /\ listenPort' = listenPort
       ELSE /\ slog' = Append(slog, Line("No available ports found.", Undefined))
            /\ spc' = "noPort"
            /\ UNCHANGED <<listenCalled, listenPort>>
    /\ UNCHANGED <<variant, gvars, envPORT, arg, port, maxPort, free, probeHeld,
                   inFlight, nProbes, result, db, proc, extBinds>>

\* app.listen's callback: console.log(`Server is running on port ${...}`).
ListenCallback ==
    /\ proc = "running"
    /\ spc = "bound"
    /\ slog' = Append(slog, Line("Server is running on port", ToText(result)))
    /\ spc' = "serving"
    /\ UNCHANGED <<variant, gvars, envPORT, arg, port, maxPort, free, probeHeld,
                   inFlight, nProbes, result, listenPort, listenCalled, db, proc,
                   extBinds>>

\* The rejected promise has no handler. What the process does then depends
\* on the Node.js version: it throws and exits, or prints a warning only.
UnhandledRejection ==
    /\ proc = "running"
    /\ spc = "rejected"
    /\ spc' = "unhandled"
    /\ \E outcome \in {"crashed", "running"} : proc' = outcome
    /\ UNCHANGED <<variant, gvars, envPORT, arg, port, maxPort, free, probeHeld,
                   inFlight, nProbes, result, listenPort, listenCalled, slog,
                   db, extBinds>>

NextSvc ==
    Startup \/ DbConnected \/ DbFails \/ OnListening \/ OnError \/ ThenHandler
    \/ ListenCallback \/ UnhandledRejection

SpecSvc == InitSvc /\ [][NextSvc]_vars

\* Another process binds a free port while the service is starting.
ExternalBind ==
    /\ proc = "running"
    /\ spc \in {"start", "listening", "error", "resolved"}
    /\ \E q \in free :
         /\ q # probeHeld
         /\ free' = free \ {q}
         /\ extBinds' = extBinds \cup {q}
    /\ UNCHANGED <<variant, gvars, envPORT, arg, port, maxPort, probeHeld,
                   inFlight, nProbes, spc, result, listenPort, listenCalled, slog,
                   db, proc>>

\* The 'error' event of the app's server has no listener: it is thrown.
ListenErrorEvent ==
    /\ proc = "running"
    /\ spc = "listenError"
    /\ spc' = "listenFailed"
    /\ proc' = "crashed"
    /\ UNCHANGED <<variant, gvars, envPORT, arg, port, maxPort, free, probeHeld,
                   inFlight, nProbes, result, listenPort, listenCalled, slog,
                   db, extBinds>>

NextRace == NextSvc \/ ExternalBind \/ ListenErrorEvent

SpecRace == InitSvc /\ [][NextRace]_vars

(***************************************************************************)
(* Properties of the generator (Spec).                                     *)
(***************************************************************************)

Printed(m) == \E i \in 1 .. Len(glog) : glog[i] = m

\* The target directory as the first k filesystem calls leave it.
RECURSIVE DirsUpTo(_)
DirsUpTo(k) ==
    IF k = 0 THEN target0.dirs ELSE DirsAfter(DirsUpTo(k - 1), StepsOf(variant)[k])
RECURSIVE FilesUpTo(_)
FilesUpTo(k) ==
    IF k = 0 THEN target0.files
    ELSE FilesAfter(variant, name, FilesUpTo(k - 1), StepsOf(variant)[k])

EmptyTarget == target0.dirs \subseteq {""} /\ DOMAIN target0.files = {}

FixedDirs ==
    {"", "public", "src", "src/config", "src/controllers", "src/models",
     "src/routes", "src/utils"}
FixedFiles ==
    {"package.json", "server.js", "src/config/db.js", "src/routes/index.js",
     "src/routes/userRoutes.js"}

C6_AbortsWithoutRollback ==
    failedAt > 0 =>
        /\ gpc = "failed"
        /\ step = failedAt
        /\ dirs = DirsUpTo(failedAt - 1)
        /\ files = FilesUpTo(failedAt - 1)
        /\ ~Printed("created")
        /\ npm = "none"

C6_Witness ==
    /\ failedAt > 2
    /\ DOMAIN files # DOMAIN target0.files
    /\ dirs # target0.dirs

\* C7: the install command is run only by the installing variant and only
\* after every directory and template file has been written; when it fails
\* the failure is logged, createProject has completed normally, and the
\* directories and files are as the last write left them.
C7_InstallFailureNonFatal ==
    /\ npm # "none" =>
          /\ Installs(variant)
          /\ failedAt = 0
          /\ step = Len(StepsOf(variant)) + 1
          /\ Printed("created")
          /\ dirs = DirsUpTo(Len(StepsOf(variant)))
          /\ files = FilesUpTo(Len(StepsOf(variant)))
          /\ \A i \in 1 .. Len(StepsOf(variant)) :
                LET s == StepsOf(variant)[i] IN
                IF s.op = "ensureDir" THEN s.path \in dirs
                ELSE /\ s.path \in DOMAIN files
                     /\ files[s.path] = ContentOf(variant, name, s.path)
    /\ npm = "failed" =>
          /\ gpc = "done"
          /\ glog[Len(glog)] = "install error"

C7_Witness == npm = "failed" /\ gpc = "done"

(***************************************************************************)
(* Properties of one search (SpecFn).                                      *)
(***************************************************************************)

\* What the claims call a free port, and the lowest one at or above p.
IsFree(n) == n = 0 \/ n \in free
FreeFrom(p, m) == {n \in p .. m : IsFree(n)}
Lowest(S) == CHOOSE n \in S : \A k \in S : n <= k
Settled == spc \in {"resolved", "rejected"}
P0 == ToNumber(arg.p)

\* C1: findAvailablePort(p, max) resolves to p when p is free, and to
\* p+k+1 when p..p+k are held, p+k+1 is free and p+k+1 <= max: to the
\* lowest free port of [p, max].
C1_LowestFreePort ==
    Settled =>
        /\ IsFree(P0) => spc = "resolved" /\ result = JSNum(P0)
        /\ FreeFrom(P0, arg.max) # {} =>
              spc = "resolved" /\ result = JSNum(Lowest(FreeFrom(P0, arg.max)))

\* The same, of the server.js that imports http.
C1_InIndexVariant == variant = "index" => C1_LowestFreePort

C1_Witness ==
    /\ spc = "resolved"
    /\ nProbes >= 3
    /\ FreeFrom(P0, arg.max) # {}
    /\ result = JSNum(Lowest(FreeFrom(P0, arg.max)))

\* C3: for p <= max, findAvailablePort(p, max) called when every port of
\* [p, max] is held resolves to null, after max - p + 1 probes.
C3_NullWhenAllHeld ==
    Settled /\ P0 <= arg.max /\ FreeFrom(P0, arg.max) = {} =>
        spc = "resolved" /\ result = Null /\ nProbes = arg.max - P0 + 1

C3_InIndexVariant == variant = "index" => C3_NullWhenAllHeld

C3_Witness == spc = "resolved" /\ result = Null /\ nProbes >= 3

\* C8: the i-th probe of a search is on port p+i-1, so the probed ports are
\* p, p+1, p+2, ... each once; at most one probe is in flight, and it is the
\* last one issued; a probe is issued only by the call and by the error
\* handler of the probe before it, never after a probe has succeeded.
C8_State ==
    /\ nProbes > 0 => ToNumber(port) = P0 + nProbes - 1
    /\ Cardinality(inFlight) <= 1
    /\ inFlight \subseteq {ToNumber(port)}
    /\ spc = "resolved" => inFlight = {}
    /\ spc = "resolved" /\ result # Null => result = port
C8_Step ==
    nProbes' # nProbes =>
        /\ nProbes' = nProbes + 1
        /\ spc \in {"call", "error"}
        /\ inFlight \ {ToNumber(port)} = {}
        /\ inFlight' = {ToNumber(port')}
C8_SequentialProbes == [](C8_State) /\ [][C8_Step]_vars

C8_Witness == spc = "resolved" /\ result # Null /\ nProbes >= 3

PreferredPort ==
    IF envPORT.t = "str" /\ envPORT.len > 0 THEN envPORT.v ELSE 3000
FreeAtOrAbove == {n \in free : n >= PreferredPort}
StartupOver == spc \in {"serving", "noPort", "unhandled", "listenFailed"}
ThenRan == spc \in {"bound", "listenError", "serving", "noPort", "listenFailed"}
LoggedRunningOn(n) ==
    \E i \in 1 .. Len(slog) :
        slog[i] = Line("Server is running on port", JSStr(n, Digits(n)))
LoggedNoPort ==
    \E i \in 1 .. Len(slog) : slog[i] = Line("No available ports found.", Undefined)

\* C2: when the start-up is over (the database connection not having
\* failed) and a port at or above the preferred port P is free, the real
\* listener is bound on the first such port and that port number is logged.
C2_BindsFirstFreePort ==
    StartupOver /\ db # "failed" /\ FreeAtOrAbove # {} =>
        /\ spc = "serving"
        /\ listenPort = Lowest(FreeAtOrAbove)
        /\ LoggedRunningOn(Lowest(FreeAtOrAbove))

\* The same, of the server.js that imports http.
C2_InIndexVariant == variant = "index" => C2_BindsFirstFreePort

\* The same, of the server.js that imports http started with PORT unset.
C2_InIndexVariantPortUnset ==
    variant = "index" /\ ~Truthy(envPORT) => C2_BindsFirstFreePort

\* C4: app.listen is called only with a result that is not null, and is
\* called once the .then callback has run on such a result; when the
\* result is null the callback logs the error, app.listen is never called,
\* and the process is still running unless connectDB ended it.
C4_ListenIffPortFound ==
    /\ listenCalled => ThenRan /\ result \notin {Null, Undefined}
    /\ ThenRan /\ result # Null => listenCalled
    /\ ThenRan /\ result = Null =>
          /\ spc = "noPort"
          /\ LoggedNoPort
          /\ ~listenCalled
          /\ listenPort = NoPort
          /\ proc = "running" \/ (proc = "exit1" /\ db = "failed")

C4_Witness ==
    /\ spc = "noPort"
    /\ result = Null
    /\ proc = "running"
    /\ LoggedNoPort
    /\ ~listenCalled

\* C9: when findAvailablePort has returned r the probe socket is closed,
\* so nothing holds r for the service; the real listener's bind on r fails
\* exactly when r is no longer free, and in these runs because another
\* process bound r after the probe.
C9_ProbeIsNotAReservation ==
    /\ spc = "resolved" => probeHeld = NoPort /\ inFlight = {}
    /\ spc \in {"listenError", "listenFailed"} =>
          /\ listenCalled
          /\ listenPort = NoPort
          /\ ToNumber(result) \in extBinds
          /\ ToNumber(result) \notin free

C9_Witness ==
    /\ spc = "listenFailed"
    /\ proc = "crashed"
    /\ result # Null
    /\ ToNumber(result) \in extBinds
    /\ listenPort = NoPort

====
